---- MODULE Spec2Model ----
(***************************************************************************)
(* Model of class dmpsbm (src/lib/dmprdpg/dmpsbm.py): the constructor and  *)
(* the pipeline sample -> get_centroids -> get_centroids_theo (rotate,     *)
(* get_rotation, calculate_error), as a state machine over one object.     *)
(*                                                                         *)
(* Python values are records carrying their runtime type, so that the      *)
(* isinstance() tests of the constructor are decided as Python decides     *)
(* them.  Real numbers are exact fractions [n, d].  Probabilities are      *)
(* counted in halves: 0, 1, 2 stand for 0, 0.5 and 1.                      *)
(***************************************************************************)
EXTENDS Integers, Sequences, FiniteSets, TLC

VARIABLES args, obj, call,
          layers, timesteps, groups, prob_dict,
          A, left_embedding, right_embedding,
          left_centroids, right_centroids,
          left_embedding_theo, right_embedding_theo,
          rotation_left, rotation_right, error

params == <<layers, timesteps, groups, prob_dict>>
derived == <<A, left_embedding, right_embedding, left_centroids, right_centroids,
             left_embedding_theo, right_embedding_theo,
             rotation_left, rotation_right, error>>
vars == <<args, obj, call, params, derived>>

(***************************************************************************)
(* Bounds of the model.                                                    *)
(***************************************************************************)
\* largest number of (layer, timestep) cells of a model of the pipeline
MaxCells == 2
\* largest number of communities
MaxGroups == 2
\* largest number of nodes of a slice, sum(groups)
MaxNodes == 2
\* largest number of matrix entries of A that are drawn with probability 0.5
MaxFree == 2

(***************************************************************************)
(* Python values.                                                          *)
(***************************************************************************)
Py(ty, v) == [ty |-> ty, v |-> v]
PyInt(v) == Py("int", v)
PyList(ty, items) == [ty |-> ty, items |-> items]
PyItem(key, value) == [key |-> key, value |-> value]
PyTuple(items) == PyList("tuple", items)
PyMatrix(ty, m) == [ty |-> ty, m |-> m]

\* a field or an argument that holds nothing yet
Unset == Py("unset", 0)
UnsetList == PyList("unset", <<>>)

\* None, and a value that is not None
None == [isNone |-> TRUE, val |-> <<>>]
Some(x) == [isNone |-> FALSE, val |-> x]

\* isinstance(x, int): bool is a subclass of int
IsInstanceInt(x) == x.ty \in {"int", "bool"}
IsInstanceList(x) == x.ty = "list"
IsInstanceDict(x) == x.ty = "dict"
IsInstanceTuple(x) == x.ty = "tuple"

Range(s) == {s[i] : i \in 1..Len(s)}

(***************************************************************************)
(* dmpsbm.__init__: the checks in the order of the code; the first that    *)
(* fails raises ValueError and construction yields no object.              *)
(***************************************************************************)
\* the slip "layers < 0" for "layers <= 0"
LayersOk_ZeroAllowed(a) == IsInstanceInt(a.layers) /\ ~(a.layers.v < 0)
LayersOk(a) == IsInstanceInt(a.layers) /\ ~(a.layers.v <= 0)
TimestepsOk(a) == IsInstanceInt(a.timesteps) /\ ~(a.timesteps.v <= 0)
GroupsOk(a) ==
    /\ IsInstanceList(a.groups)
    /\ Len(a.groups.items) # 0
    /\ \A x \in Range(a.groups.items) : IsInstanceInt(x)
\* a constructor that also asks for every key (i, j) of the loops
ProbDictOk_KeysRequired(a) ==
    /\ IsInstanceDict(a.prob_dict)
    /\ \A it \in Range(a.prob_dict.items) :
          /\ IsInstanceTuple(it.key)
          /\ Len(it.key.items) = 2
          /\ IsInstanceList(it.value)
    /\ \A i \in 0..(a.layers.v - 1), j \in 0..(a.timesteps.v - 1) :
          \E it \in Range(a.prob_dict.items) : it.key.items = <<i, j>>

ProbDictOk(a) ==
    /\ IsInstanceDict(a.prob_dict)
    /\ \A it \in Range(a.prob_dict.items) :
          /\ IsInstanceTuple(it.key)
          /\ Len(it.key.items) = 2
          /\ IsInstanceList(it.value)

dmpsbm_init(a) ==
    IF ~LayersOk(a) THEN "ValueError: layers"
    ELSE IF ~TimestepsOk(a) THEN "ValueError: timesteps"
    ELSE IF ~GroupsOk(a) THEN "ValueError: groups"
    ELSE IF ~ProbDictOk(a) THEN "ValueError: prob_dict"
    ELSE "none"

Call(op, exc) == [op |-> op, exc |-> exc, key |-> <<>>]

DerivedInit ==
    /\ A = None
    /\ left_embedding = None
    /\ right_embedding = None
    /\ left_centroids = None
    /\ right_centroids = None
    /\ left_embedding_theo = None
    /\ right_embedding_theo = None
    /\ rotation_left = None
    /\ rotation_right = None
    /\ error = [n |-> 0, d |-> 1]

Unconstructed ==
    /\ obj = "none"
    /\ call = Call("start", "none")
    /\ layers = Unset
    /\ timesteps = Unset
    /\ groups = UnsetList
    /\ prob_dict = UnsetList
    /\ DerivedInit

\* dmpsbm(layers, timesteps, groups, prob_dict)
Construct ==
    /\ obj = "none"
    /\ call.op = "start"
    /\ LET exc == dmpsbm_init(args) IN
       /\ call' = Call("__init__", exc)
       /\ IF exc = "none"
          THEN /\ obj' = "dmpsbm"
               /\ layers' = args.layers
               /\ timesteps' = args.timesteps
               /\ groups' = args.groups
               /\ prob_dict' = args.prob_dict
          ELSE /\ obj' = "none"
               /\ UNCHANGED params
    /\ UNCHANGED <<args, derived>>

(***************************************************************************)
(* Arithmetic: exact fractions for the real numbers of numpy.              *)
(***************************************************************************)
Abs(x) == IF x < 0 THEN -x ELSE x

RECURSIVE GCD(_, _)
GCD(a, b) == IF b = 0 THEN a ELSE GCD(b, a % b)

Frac(n, d) == LET g == GCD(Abs(n), d) IN [n |-> n \div g, d |-> d \div g]
FromInt(x) == [n |-> x, d |-> 1]
FAdd(x, y) == Frac(x.n * y.d + y.n * x.d, x.d * y.d)
FSub(x, y) == Frac(x.n * y.d - y.n * x.d, x.d * y.d)
FMul(x, y) == Frac(x.n * y.n, x.d * y.d)

RECURSIVE SumSeq(_)
SumSeq(s) == IF Len(s) = 0 THEN 0 ELSE s[1] + SumSeq(Tail(s))

RECURSIVE FSumSeq(_)
FSumSeq(s) == IF Len(s) = 0 THEN FromInt(0) ELSE FAdd(s[1], FSumSeq(Tail(s)))

RECURSIVE Flatten(_)
Flatten(ss) == IF Len(ss) = 0 THEN <<>> ELSE ss[1] \o Flatten(Tail(ss))

(***************************************************************************)
(* numpy: matrices are sequences of rows.                                  *)
(***************************************************************************)
Rows(M) == Len(M)
Cols(M) == IF Len(M) = 0 THEN 0 ELSE Len(M[1])

\* the slip axis=0 for axis=1
ConcatAxis1_Axis0(blocks) == Flatten(blocks)

\* np.concatenate(blocks, axis=1): the blocks side by side
ConcatAxis1(blocks) ==
    IF Len(blocks) = 0 THEN <<>>
    ELSE [r \in 1..Rows(blocks[1]) |-> Flatten([b \in 1..Len(blocks) |-> blocks[b][r]])]

\* np.concatenate(blocks, axis=0): the blocks one below the other
ConcatAxis0(blocks) == Flatten(blocks)

\* M @ R
MatMul(M, R) ==
    [r \in 1..Rows(M) |->
        [c \in 1..Cols(R) |-> SumSeq([k \in 1..Rows(R) |-> M[r][k] * R[k][c]])]]

\* np.mean of a non-empty vector of integers
Mean(s) == Frac(SumSeq(s), Len(s))

(***************************************************************************)
(* The fields of self other than the constructor's parameters.             *)
(***************************************************************************)
Self ==
    [A |-> A, left_embedding |-> left_embedding, right_embedding |-> right_embedding,
     left_centroids |-> left_centroids, right_centroids |-> right_centroids,
     left_embedding_theo |-> left_embedding_theo,
     right_embedding_theo |-> right_embedding_theo,
     rotation_left |-> rotation_left, rotation_right |-> rotation_right,
     error |-> error]

Store(S) ==
    /\ A' = S.A
    /\ left_embedding' = S.left_embedding
    /\ right_embedding' = S.right_embedding
    /\ left_centroids' = S.left_centroids
    /\ right_centroids' = S.right_centroids
    /\ left_embedding_theo' = S.left_embedding_theo
    /\ right_embedding_theo' = S.right_embedding_theo
    /\ rotation_left' = S.rotation_left
    /\ rotation_right' = S.rotation_right
    /\ error' = S.error

\* what a method call leaves: the exception raised ("none": it returned) and self
Outcome(exc, S) == [exc |-> exc, key |-> <<>>, self |-> S]
KeyError(key, S) == [exc |-> "KeyError", key |-> key, self |-> S]

Layers == layers.v
Timesteps == timesteps.v
Groups == [k \in 1..Len(groups.items) |-> groups.items[k].v]
NumNodes == SumSeq(Groups)

\* prob_dict[(i, j)]
HasKey(i, j) == \E it \in Range(prob_dict.items) : it.key = PyTuple(<<i, j>>)
Lookup(i, j) == (CHOOSE it \in Range(prob_dict.items) : it.key = PyTuple(<<i, j>>)).value.m

\* the (i, j) of the nested loops "for i in range(layers): for j in range(timesteps)"
LoopKeys == {<<i, j>> : i \in 0..(Layers - 1), j \in 0..(Timesteps - 1)}
Before(k1, k2) == k1[1] < k2[1] \/ (k1[1] = k2[1] /\ k1[2] < k2[2])
MissingKeys == {k \in LoopKeys : ~HasKey(k[1], k[2])}
FirstMissing == CHOOSE k \in MissingKeys : \A k2 \in MissingKeys : k2 = k \/ Before(k, k2)

(***************************************************************************)
(* The helpers of .helpers, which the repository keeps in another file.    *)
(***************************************************************************)
\* generate_group_labels(len_groups): community k holds a contiguous run of
\* len_groups[k] nodes, labelled k
generate_group_labels(len_groups) ==
    Flatten([k \in 1..Len(len_groups) |-> [n \in 1..len_groups[k] |-> k - 1]])

\* a Bernoulli draw with success probability p (in halves), decided by coin
Bernoulli(p, coin) == IF p = 0 THEN 0 ELSE IF p = 2 THEN 1 ELSE coin

\* generate_adjacency_matrix(len_groups, probabilities): entry (u, v) is a Bernoulli
\* draw with the probability between the communities of u and v
generate_adjacency_matrix(len_groups, probabilities, coins) ==
    LET labels == generate_group_labels(len_groups) IN
    [u \in 1..Len(labels) |->
        [v \in 1..Len(labels) |->
            Bernoulli(probabilities[labels[u] + 1][labels[v] + 1], coins[<<u, v>>])]]

\* get_embedding(matrix, type): one row per row (left) or per column (right) of the
\* matrix, EmbDim columns.  The decomposition is a primitive: it is one of the
\* candidates Decompositions, and both sides of one matrix come of the same one
EmbDim == 4
Decompositions == {1, 2}
EmbRow(type, s, r) ==
    IF type = "left" THEN <<s * r, r - s, (r * r) - (2 * s), s - (3 * r)>>
    ELSE <<r - (2 * s), s * (r + 1), 2 - r, (r * r) + s>>
get_embedding(matrix, type, s) ==
    [r \in 1..(IF type = "left" THEN Rows(matrix) ELSE Cols(matrix)) |-> EmbRow(type, s, r)]

(***************************************************************************)
(* dmpsbm.sample                                                           *)
(***************************************************************************)
\* the entries of A drawn with probability 0.5
FreeCells ==
    LET labels == generate_group_labels(Groups) IN
    {c \in LoopKeys \X (1..Len(labels)) \X (1..Len(labels)) :
        /\ HasKey(c[1][1], c[1][2])
        /\ Lookup(c[1][1], c[1][2])[labels[c[2]] + 1][labels[c[3]] + 1] = 1}

SampledA(coins) ==
    LET curr_A(i, j) ==
            generate_adjacency_matrix(Groups, Lookup(i, j),
                [uv \in (1..NumNodes) \X (1..NumNodes) |->
                    IF <<<<i, j>>, uv[1], uv[2]>> \in DOMAIN coins
                    THEN coins[<<<<i, j>>, uv[1], uv[2]>>] ELSE 0])
        final_long(i) == ConcatAxis1([j \in 1..Timesteps |-> curr_A(i, j - 1)])
    IN  ConcatAxis0([i \in 1..Layers |-> final_long(i - 1)])

\* a sample that drops the centroids of the embeddings it replaces
sample_Invalidating(S, coins, s) ==
    IF MissingKeys # {} THEN KeyError(FirstMissing, S)
    ELSE LET final_embedding == SampledA(coins) IN
         Outcome("none",
             [S EXCEPT !.A = Some(final_embedding),
                       !.left_embedding = Some(get_embedding(final_embedding, "left", s)),
                       !.right_embedding = Some(get_embedding(final_embedding, "right", s)),
                       !.left_centroids = None,
                       !.right_centroids = None])

sample_(S, coins, s) ==
    IF MissingKeys # {} THEN KeyError(FirstMissing, S)
    ELSE LET final_embedding == SampledA(coins) IN
         Outcome("none",
             [S EXCEPT !.A = Some(final_embedding),
                       !.left_embedding = Some(get_embedding(final_embedding, "left", s)),
                       !.right_embedding = Some(get_embedding(final_embedding, "right", s))])

Finish(op, r) ==
    /\ call' = [op |-> op, exc |-> r.exc, key |-> r.key]
    /\ Store(r.self)

sample ==
    /\ obj = "dmpsbm"
    /\ \E coins \in [FreeCells -> {0, 1}], s \in Decompositions :
          Finish("sample", sample_(Self, coins, s))
    /\ UNCHANGED <<args, obj, params>>

(***************************************************************************)
(* dmpsbm.get_centroids                                                    *)
(***************************************************************************)
\* iteration over set(labels): CPython keeps small non-negative integers in the
\* slot of their value, so the distinct labels come in ascending order
RECURSIVE Ascending(_)
Ascending(S) ==
    IF S = {} THEN <<>>
    ELSE LET least == CHOOSE x \in S : \A y \in S : x <= y IN
         <<least>> \o Ascending(S \ {least})
SetIteration(labels) == Ascending(Range(labels))

\* current[labels == label]: the rows of current at the positions holding label
RECURSIVE Masked(_, _, _)
Masked(current, labels, label) ==
    IF Len(labels) = 0 THEN <<>>
    ELSE (IF labels[1] = label THEN <<current[1]>> ELSE <<>>)
         \o Masked(Tail(current), Tail(labels), label)

Column(M, c) == [r \in 1..Len(M) |-> M[r][c]]

\* [np.mean(community[:, 0]), ..., np.mean(community[:, 3])]
CentroidOf(community) == [c \in 1..EmbDim |-> Mean(Column(community, c))]

\* the centroids of slice number "slice" (from 0) of an embedding
SliceCentroids(embedding, slice) ==
    LET total_nodes == NumNodes
        current == SubSeq(embedding, (total_nodes * slice) + 1, total_nodes * (slice + 1))
        labels == generate_group_labels(Groups)
        order == SetIteration(labels)
    IN  [n \in 1..Len(order) |-> CentroidOf(Masked(current, labels, order[n]))]

Centroids(embedding, slices) ==
    [s \in 1..slices |-> SliceCentroids(embedding, s - 1)]

\* a get_centroids that returns without a word when there is no embedding
get_centroids_Silent(S) ==
    IF S.left_embedding.isNone \/ S.right_embedding.isNone THEN Outcome("none", S)
    ELSE Outcome("none",
             [S EXCEPT !.left_centroids = Some(Centroids(S.left_embedding.val, Layers)),
                       !.right_centroids = Some(Centroids(S.right_embedding.val, Timesteps))])

get_centroids_(S) ==
    IF S.left_embedding.isNone THEN Outcome("TypeError", S)
    ELSE LET S1 == [S EXCEPT !.left_centroids =
                        Some(Centroids(S.left_embedding.val, Layers))] IN
         IF S.right_embedding.isNone THEN Outcome("TypeError", S1)
         ELSE Outcome("none",
                  [S1 EXCEPT !.right_centroids =
                        Some(Centroids(S.right_embedding.val, Timesteps))])

get_centroids ==
    /\ obj = "dmpsbm"
    /\ Finish("get_centroids", get_centroids_(Self))
    /\ UNCHANGED <<args, obj, params>>

(***************************************************************************)
(* dmpsbm.get_rotation, rotate, calculate_error, calculate_variance        *)
(***************************************************************************)
\* np.concatenate(centroids, axis=0): the centroids of all slices, one per row
Stacked(centroids) == ConcatAxis0(centroids)
\* its number of dimensions: slices without any centroid stack to an empty vector
StackedNdim(centroids) == IF Len(Stacked(centroids)) = 0 THEN 1 ELSE 2

\* scipy's orthogonal_procrustes(A, B) raises ValueError unless both are matrices
\* of the same shape
ProcrustesAccepts(theo, centroids) ==
    /\ ~theo.isNone
    /\ StackedNdim(centroids) = 2
    /\ Rows(theo.val) = Rows(Stacked(centroids))
    /\ Cols(theo.val) = Cols(Stacked(centroids))

\* the orthogonal matrices orthogonal_procrustes is taken to return
Identity == <<<<1, 0, 0, 0>>, <<0, 1, 0, 0>>, <<0, 0, 1, 0>>, <<0, 0, 0, 1>>>>
Reflect == <<<<0, 1, 0, 0>>, <<1, 0, 0, 0>>, <<0, 0, -1, 0>>, <<0, 0, 0, 1>>>>
Rotations == {Identity, Reflect}

\* a get_rotation whose left alignment takes whatever it is given
get_rotation_Unchecked(S, rl, rr) ==
    IF S.left_centroids.isNone THEN Outcome("TypeError", S)
    ELSE LET S1 == [S EXCEPT !.rotation_left = Some(rl)] IN
         IF S.right_centroids.isNone THEN Outcome("TypeError", S1)
         ELSE IF ~ProcrustesAccepts(S.right_embedding_theo, S.right_centroids.val)
         THEN Outcome("ValueError", S1)
         ELSE Outcome("none", [S1 EXCEPT !.rotation_right = Some(rr)])

get_rotation_(S, rl, rr) ==
    IF S.left_centroids.isNone THEN Outcome("TypeError", S)
    ELSE IF ~ProcrustesAccepts(S.left_embedding_theo, S.left_centroids.val)
    THEN Outcome("ValueError", S)
    ELSE LET S1 == [S EXCEPT !.rotation_left = Some(rl)] IN
         IF S.right_centroids.isNone THEN Outcome("TypeError", S1)
         ELSE IF ~ProcrustesAccepts(S.right_embedding_theo, S.right_centroids.val)
         THEN Outcome("ValueError", S1)
         ELSE Outcome("none", [S1 EXCEPT !.rotation_right = Some(rr)])

\* numpy broadcasting of theo - stacked, both with EmbDim columns
Broadcasts(theo, centroids) ==
    /\ StackedNdim(centroids) = 2
    /\ \/ Rows(theo) = Rows(Stacked(centroids))
       \/ Rows(theo) = 1
       \/ Rows(Stacked(centroids)) = 1

\* sum(sum((theo - stacked)**2))
SquaredError(theo, centroids) ==
    LET stacked == Stacked(centroids)
        rows == IF Rows(theo) = 1 THEN Rows(stacked) ELSE Rows(theo)
        t(r) == IF Rows(theo) = 1 THEN theo[1] ELSE theo[r]
        s(r) == IF Rows(stacked) = 1 THEN stacked[1] ELSE stacked[r]
        sq(x) == FMul(x, x)
    IN  FSumSeq([r \in 1..rows |->
            FSumSeq([c \in 1..EmbDim |-> sq(FSub(FromInt(t(r)[c]), s(r)[c]))])])

\* calculate_variance only reads the embeddings and draws
calculate_variance_(S) ==
    IF S.left_embedding.isNone \/ S.right_embedding.isNone
    THEN Outcome("TypeError", S)
    ELSE Outcome("none", S)

calculate_error_(S) ==
    IF S.left_centroids.isNone \/ S.right_centroids.isNone THEN Outcome("TypeError", S)
    ELSE IF S.left_embedding_theo.isNone THEN Outcome("TypeError", S)
    ELSE IF ~Broadcasts(S.left_embedding_theo.val, S.left_centroids.val)
    THEN Outcome("ValueError", S)
    ELSE IF S.right_embedding_theo.isNone THEN Outcome("TypeError", S)
    ELSE IF ~Broadcasts(S.right_embedding_theo.val, S.right_centroids.val)
    THEN Outcome("ValueError", S)
    ELSE calculate_variance_(
             [S EXCEPT !.error =
                 FAdd(SquaredError(S.left_embedding_theo.val, S.left_centroids.val),
                      SquaredError(S.right_embedding_theo.val, S.right_centroids.val))])

\* a rotate that computes the error before it applies the rotations
rotate_ErrorFirst(S, rl, rr) ==
    LET r == get_rotation_(S, rl, rr)
        e == calculate_error_(r.self)
    IN  IF r.exc # "none" THEN r
        ELSE [e EXCEPT !.self =
                 [e.self EXCEPT
                     !.left_embedding_theo =
                         Some(MatMul(e.self.left_embedding_theo.val, e.self.rotation_left.val)),
                     !.right_embedding_theo =
                         Some(MatMul(e.self.right_embedding_theo.val, e.self.rotation_right.val))]]

rotate_(S, rl, rr) ==
    LET r == get_rotation_(S, rl, rr) IN
    IF r.exc # "none" THEN r
    ELSE calculate_error_(
             [r.self EXCEPT
                 !.left_embedding_theo =
                     Some(MatMul(r.self.left_embedding_theo.val, r.self.rotation_left.val)),
                 !.right_embedding_theo =
                     Some(MatMul(r.self.right_embedding_theo.val, r.self.rotation_right.val))])

get_rotation ==
    /\ obj = "dmpsbm"
    /\ \E rl \in Rotations, rr \in Rotations :
          Finish("get_rotation", get_rotation_(Self, rl, rr))
    /\ UNCHANGED <<args, obj, params>>

rotate ==
    /\ obj = "dmpsbm"
    /\ \E rl \in Rotations, rr \in Rotations :
          Finish("rotate", rotate_(Self, rl, rr))
    /\ UNCHANGED <<args, obj, params>>

calculate_error ==
    /\ obj = "dmpsbm"
    /\ Finish("calculate_error", calculate_error_(Self))
    /\ UNCHANGED <<args, obj, params>>

(***************************************************************************)
(* dmpsbm.get_centroids_theo                                               *)
(***************************************************************************)
\* the block-probability matrices laid out as sample lays out the blocks of A
TheoreticalMatrix ==
    LET final_long(i) == ConcatAxis1([j \in 1..Timesteps |-> Lookup(i, j - 1)])
    IN  ConcatAxis0([i \in 1..Layers |-> final_long(i - 1)])

get_centroids_theo_(S, s, rl, rr) ==
    IF MissingKeys # {} THEN KeyError(FirstMissing, S)
    ELSE LET final_embedding == TheoreticalMatrix IN
         rotate_([S EXCEPT
                     !.left_embedding_theo = Some(get_embedding(final_embedding, "left", s)),
                     !.right_embedding_theo = Some(get_embedding(final_embedding, "right", s))],
                 rl, rr)

get_centroids_theo ==
    /\ obj = "dmpsbm"
    /\ \E s \in Decompositions, rl \in Rotations, rr \in Rotations :
          Finish("get_centroids_theo", get_centroids_theo_(Self, s, rl, rr))
    /\ UNCHANGED <<args, obj, params>>

(***************************************************************************)
(* Arguments tried on the constructor.                                     *)
(***************************************************************************)
CtorScalars ==
    { PyInt(-1), PyInt(0), PyInt(1), PyInt(2),
      Py("bool", 0), Py("bool", 1), Py("float", 1), Py("str", 0), Py("NoneType", 0) }

CtorGroups ==
    { PyList("list", <<>>),
      PyList("list", <<PyInt(1)>>),
      PyList("list", <<PyInt(0)>>),
      PyList("list", <<PyInt(2), PyInt(-1)>>),
      PyList("list", <<PyInt(1), PyInt(0)>>),
      PyList("list", <<PyInt(1), Py("float", 1)>>),
      PyList("list", <<Py("str", 0)>>),
      PyList("tuple", <<PyInt(1), PyInt(1)>>),
      PyList("NoneType", <<>>) }

OneByOne == <<<<2>>>>

CtorProbDicts ==
    { PyList("dict", <<>>),
      PyList("dict", <<PyItem(PyTuple(<<0, 0>>), PyMatrix("list", OneByOne))>>),
      PyList("dict", <<PyItem(PyTuple(<<0, 0>>), PyMatrix("list", OneByOne)),
                       PyItem(PyTuple(<<0, 1>>), PyMatrix("list", OneByOne))>>),
      PyList("dict", <<PyItem(PyTuple(<<0, 0>>), PyMatrix("list", OneByOne)),
                       PyItem(PyTuple(<<0, 1>>), PyMatrix("ndarray", OneByOne))>>),
      PyList("dict", <<PyItem(PyTuple(<<0, 0>>), PyMatrix("list", OneByOne)),
                       PyItem(PyList("int", <<0>>), PyMatrix("list", OneByOne))>>),
      PyList("dict", <<PyItem(PyList("str", <<>>), PyMatrix("list", OneByOne))>>),
      PyList("dict", <<PyItem(PyTuple(<<0>>), PyMatrix("list", OneByOne))>>),
      PyList("dict", <<PyItem(PyTuple(<<0, 0, 0>>), PyMatrix("list", OneByOne))>>),
      PyList("dict", <<PyItem(PyTuple(<<0, 0>>), PyMatrix("NoneType", <<>>))>>),
      PyList("list", <<>>),
      PyList("NoneType", <<>>) }

CtorArgs ==
    [layers : CtorScalars, timesteps : CtorScalars,
     groups : CtorGroups, prob_dict : CtorProbDicts]

(***************************************************************************)
(* Models run through the pipeline: every argument of a type the           *)
(* constructor accepts, 1 to MaxNodes nodes in at most MaxGroups           *)
(* communities, one block-probability matrix per key, and at most one of   *)
(* the required keys left out.                                             *)
(***************************************************************************)
Certain(G) == [a \in 1..G |-> [b \in 1..G |-> 2]]
Assortative(G) == [a \in 1..G |-> [b \in 1..G |-> IF a = b THEN 2 ELSE 0]]
Mixed(G) == [a \in 1..G |-> [b \in 1..G |-> IF a = b THEN 0 ELSE 1]]
Diffuse(G) == [a \in 1..G |-> [b \in 1..G |-> IF a = 1 /\ b = 1 THEN 1 ELSE 2]]
ProbMatrices(G) == {Certain(G), Assortative(G), Mixed(G), Diffuse(G)}

RECURSIVE SeqsUpTo(_, _)
SeqsUpTo(S, n) ==
    IF n = 0 THEN {<<>>}
    ELSE LET shorter == SeqsUpTo(S, n - 1) IN
         shorter \cup {Append(q, x) : q \in {t \in shorter : Len(t) = n - 1}, x \in S}

PipelineGroups ==
    {g \in SeqsUpTo(0..MaxNodes, MaxGroups) :
        Len(g) > 0 /\ SumSeq(g) >= 1 /\ SumSeq(g) <= MaxNodes}

\* the keys (i, j), row by row, as the caller's dict literal lists them
KeySeq(L, T) == [n \in 1..(L * T) |-> <<(n - 1) \div T, (n - 1) % T>>]
Without(q, n) == [m \in 1..(Len(q) - 1) |-> IF m < n THEN q[m] ELSE q[m + 1]]
KeySeqs(L, T) == {KeySeq(L, T)} \cup {Without(KeySeq(L, T), n) : n \in 1..(L * T)}

PipelineProbDicts(L, T, G) ==
    UNION { { PyList("dict", [n \in 1..Len(ks) |->
                                 PyItem(PyTuple(ks[n]), PyMatrix("list", ms[n]))]) :
              ms \in [1..Len(ks) -> ProbMatrices(G)] } :
            ks \in KeySeqs(L, T) }

\* the number of entries of A drawn with probability 0.5
NumFree(g, pd) ==
    LET halves(m) == {ab \in (1..Len(g)) \X (1..Len(g)) : m[ab[1]][ab[2]] = 1}
        draws(m) == SumSeq([a \in 1..Len(g) |->
                        SumSeq([b \in 1..Len(g) |->
                            IF <<a, b>> \in halves(m) THEN g[a] * g[b] ELSE 0])])
    IN  SumSeq([n \in 1..Len(pd.items) |-> draws(pd.items[n].value.m)])

DimPairs == {lt \in (1..MaxCells) \X (1..MaxCells) : lt[1] * lt[2] <= MaxCells}

ArgsFor(L, T, g) ==
    { [layers |-> PyInt(L), timesteps |-> PyInt(T),
       groups |-> PyList("list", [k \in 1..Len(g) |-> PyInt(g[k])]),
       prob_dict |-> pd] :
      pd \in {d \in PipelineProbDicts(L, T, Len(g)) : NumFree(g, d) <= MaxFree} }

PipelineArgs ==
    UNION { ArgsFor(x[1][1], x[1][2], x[2]) : x \in DimPairs \X PipelineGroups }

\* the models whose blocks are drawn without chance
CertainArgs ==
    {a \in PipelineArgs :
        \A it \in Range(a.prob_dict.items) : it.value.m = Certain(Len(a.groups.items))}

Init ==
    /\ args \in CertainArgs
    /\ Unconstructed

InitSample ==
    /\ args \in PipelineArgs
    /\ Unconstructed

NextSample ==
    \/ Construct
    \/ sample

SpecSample == InitSample /\ [][NextSample]_vars

Next ==
    \/ Construct
    \/ sample
    \/ get_centroids
    \/ get_centroids_theo
    \/ get_rotation
    \/ rotate
    \/ calculate_error

Spec == Init /\ [][Next]_vars

InitCtor ==
    /\ args \in CtorArgs
    /\ Unconstructed

SpecInit == InitCtor /\ [][Construct]_vars

(***************************************************************************)
(* The properties.                                                         *)
(***************************************************************************)
Constructed == call.op = "__init__" /\ call.exc = "none"
Rejected ==
    /\ call.op = "__init__"
    /\ call.exc # "none"
    /\ obj = "none"
    /\ params = <<Unset, Unset, UnsetList, UnsetList>>
    /\ DerivedInit

\* what the documentation asks of the arguments; an integer is an instance of
\* Python's int, which a bool is
PositiveInteger(x) == x.ty \in {"int", "bool"} /\ x.v >= 1
ListOfIntegers(g) ==
    g.ty = "list" /\ g.items # <<>> /\ \A n \in 1..Len(g.items) : g.items[n].ty \in {"int", "bool"}
DictOfPairsToLists(d) ==
    d.ty = "dict" /\ \A n \in 1..Len(d.items) :
        /\ d.items[n].key.ty = "tuple"
        /\ Len(d.items[n].key.items) = 2
        /\ d.items[n].value.ty = "list"
Documented(a) ==
    /\ PositiveInteger(a.layers)
    /\ PositiveInteger(a.timesteps)
    /\ ListOfIntegers(a.groups)
    /\ DictOfPairsToLists(a.prob_dict)

\* C1: once the constructor has run on arguments of which layers or timesteps is
\* not a positive integer, groups is not a non-empty list of integers, or
\* prob_dict is not a dict of 2-tuples to lists, it has raised a validation error
\* and there is no object.
C1_InvalidArgumentsRejected ==
    (call.op = "__init__" /\ ~Documented(args)) => Rejected

\* the three rejections the documentation lists: layers=0, groups=[] and a
\* prob_dict with a key that is no tuple, each with every other argument valid
C1_Witness ==
    /\ Rejected
    /\ PositiveInteger(args.layers) /\ PositiveInteger(args.timesteps)
    /\ ListOfIntegers(args.groups)
    /\ \E n \in 1..Len(args.prob_dict.items) : args.prob_dict.items[n].key.ty = "int"

\* C2: once the constructor has run on a groups list holding an entry that is
\* zero or negative it has raised a validation error, so that the groups of
\* every constructed model are all positive.
C2_NonPositiveGroupsRejected ==
    /\ (call.op = "__init__" /\ \E n \in 1..Len(args.groups.items) : args.groups.items[n].v <= 0)
          => Rejected
    /\ obj = "dmpsbm" => \A n \in 1..Len(groups.items) : groups.items[n].v >= 1

Returned(op) == call.op = op /\ call.exc = "none"
Raised(op) == call.op = op /\ call.exc # "none"

\* the keys a model needs, and those of them its prob_dict lacks
RequiredKeys == {<<i, j>> : i \in 0..(layers.v - 1), j \in 0..(timesteps.v - 1)}
KeysHeld == {prob_dict.items[n].key.items : n \in 1..Len(prob_dict.items)}
Lacking == RequiredKeys \ KeysHeld

\* a valid model: every community size positive, every required key held
ValidModel ==
    /\ obj = "dmpsbm"
    /\ \A n \in 1..Len(groups.items) : groups.items[n].v >= 1
    /\ Lacking = {}

\* the community (from 1) of node u (from 1): communities are contiguous runs
CommunityOf(u) ==
    CHOOSE k \in 1..Len(groups.items) :
        /\ SumSeq([m \in 1..(k - 1) |-> groups.items[m].v]) < u
        /\ u <= SumSeq([m \in 1..k |-> groups.items[m].v])

\* the values a draw with probability p (in halves) can give
Support(p) == IF p = 0 THEN {0} ELSE IF p = 2 THEN {1} ELSE {0, 1}

\* C3: once sample has run on a valid model with N = sum(groups), A has
\* layers*N rows of timesteps*N entries, all 0 or 1, and its N x N block at rows
\* i*N.., columns j*N.. holds draws from prob_dict[(i, j)]: entry (u, v) of the
\* block is a draw with the probability between the communities of u and v.
C3_SampleLaysOutBlocks ==
    (call.op = "sample" /\ ValidModel) =>
        LET N == SumSeq([m \in 1..Len(groups.items) |-> groups.items[m].v])
            P(i, j) == (CHOOSE it \in Range(prob_dict.items) : it.key.items = <<i, j>>).value.m
        IN  /\ call.exc = "none"
            /\ ~A.isNone
            /\ Len(A.val) = layers.v * N
            /\ \A r \in 1..Len(A.val) :
                  /\ Len(A.val[r]) = timesteps.v * N
                  /\ \A c \in 1..Len(A.val[r]) : A.val[r][c] \in {0, 1}
            /\ \A i \in 0..(layers.v - 1), j \in 0..(timesteps.v - 1), u \in 1..N, v \in 1..N :
                  A.val[(i * N) + u][(j * N) + v]
                      \in Support(P(i, j)[CommunityOf(u)][CommunityOf(v)])

\* a sampled model of one layer and two timesteps, two communities, whose two
\* blocks follow different matrices and differ
C3_Witness ==
    /\ Returned("sample") /\ ValidModel
    /\ layers.v = 1 /\ timesteps.v = 2 /\ Len(groups.items) = 2
    /\ prob_dict.items[1].value.m = Assortative(2)
    /\ prob_dict.items[2].value.m = Mixed(2)
    /\ A.val = <<<<1, 0, 0, 1>>, <<0, 1, 0, 0>>>>

\* the first key, in the order of the loops, that prob_dict lacks
FirstLacking ==
    CHOOSE k \in Lacking :
        \A k2 \in Lacking : k[1] < k2[1] \/ (k[1] = k2[1] /\ k[2] <= k2[2])

\* the arguments of the call hold a prob_dict without some key of the loops
ArgsLack ==
    \E i \in 0..(args.layers.v - 1), j \in 0..(args.timesteps.v - 1) :
        \A it \in Range(args.prob_dict.items) : it.key.items # <<i, j>>

\* C4: a prob_dict lacking a required key passes the constructor, and every
\* sample() and get_centroids_theo() on that model then fails with the lookup
\* of the first key it lacks.
C4_MissingKeyFailsAtUse ==
    /\ (call.op = "__init__" /\ Documented(args) /\ ArgsLack) => Constructed
    /\ (Lacking # {} /\ call.op \in {"sample", "get_centroids_theo"}) =>
          call.exc = "KeyError" /\ call.key = FirstLacking

\* get_centroids_theo has failed on the key (0, 1), the key (0, 0) being held
C4_Witness ==
    /\ call.op = "get_centroids_theo" /\ call.exc = "KeyError" /\ call.key = <<0, 1>>
    /\ <<0, 0>> \in KeysHeld

\* C5: get_centroids called while no sample has left an embedding raises, and
\* get_rotation, rotate and get_centroids_theo called while no get_centroids has
\* left centroids raise: none of these calls returns.
C5_OutOfOrderCallsRaise ==
    [][ /\ (left_embedding.isNone /\ call'.op = "get_centroids") => call'.exc # "none"
        /\ (left_centroids.isNone /\ call'.op \in {"get_rotation", "rotate", "get_centroids_theo"})
              => call'.exc # "none" ]_vars

\* get_rotation has raised on a sampled model that has no centroids
C5_Witness ==
    /\ Raised("get_rotation") /\ call.exc = "TypeError"
    /\ ~left_embedding.isNone /\ left_centroids.isNone

\* C6: once get_centroids has returned, left_centroids holds one sequence per
\* layer and right_centroids one per timestep, each of len(groups) vectors of 4
\* numbers.
C6_CentroidCounts ==
    Returned("get_centroids") =>
        /\ Len(left_centroids.val) = layers.v
        /\ Len(right_centroids.val) = timesteps.v
        /\ \A cs \in Range(left_centroids.val) \cup Range(right_centroids.val) :
              /\ Len(cs) = Len(groups.items)
              /\ \A c \in Range(cs) : Len(c) = 4

\* the sum over all entries of the squared differences between a matrix and the
\* centroids, slice after slice and community after community
SumOfSquares(M, centroids) ==
    LET K == Len(centroids[1])
        d(n, k, c) == FSub(FromInt(M[((n - 1) * K) + k][c]), centroids[n][k][c])
    IN  FSumSeq([n \in 1..Len(centroids) |->
            FSumSeq([k \in 1..K |->
                FSumSeq([c \in 1..4 |-> FMul(d(n, k, c), d(n, k, c))])])])

\* C7: once get_centroids_theo has returned, the theoretical embeddings are the
\* embeddings of the probability matrix multiplied by the rotations, and error
\* is the sum of the squared differences between these rotated embeddings and
\* the centroids, left plus right, which is not negative.
C7_ErrorOfRotatedEmbeddings ==
    Returned("get_centroids_theo") =>
        /\ \E s \in Decompositions :
              /\ left_embedding_theo.val =
                    MatMul(get_embedding(TheoreticalMatrix, "left", s), rotation_left.val)
              /\ right_embedding_theo.val =
                    MatMul(get_embedding(TheoreticalMatrix, "right", s), rotation_right.val)
        /\ error = FAdd(SumOfSquares(left_embedding_theo.val, left_centroids.val),
                        SumOfSquares(right_embedding_theo.val, right_centroids.val))
        /\ error.n >= 0 /\ error.d >= 1

\* get_centroids_theo has returned with a rotation that is not the identity and
\* an error that is not 0
C7_Witness ==
    /\ Returned("get_centroids_theo")
    /\ rotation_left.val = Reflect
    /\ left_embedding_theo.val # MatMul(left_embedding_theo.val, Reflect)
    /\ error.n > 0

\* the mean of the rows first+1 .. first+size of a slice, column by column
MeanOfRun(current, first, size) ==
    [c \in 1..4 |-> Frac(SumSeq([r \in 1..size |-> current[first + r][c]]), size)]

\* C8: once get_centroids has returned, the k-th centroid of every layer (and of
\* every timestep) is the mean of the rows of the slice that community k
\* occupies: the groups[k] rows after the first groups[0]+...+groups[k-1].
C8_CentroidsFollowGroups ==
    Returned("get_centroids") =>
        LET N == SumSeq([m \in 1..Len(groups.items) |-> groups.items[m].v])
            first(k) == SumSeq([m \in 1..(k - 1) |-> groups.items[m].v])
            follows(embedding, centroids, n) ==
                \A k \in 1..Len(groups.items) :
                    /\ k <= Len(centroids[n])
                    /\ groups.items[k].v >= 1 =>
                          centroids[n][k] =
                              MeanOfRun(SubSeq(embedding, ((n - 1) * N) + 1, n * N),
                                        first(k), groups.items[k].v)
        IN  /\ \A l \in 1..layers.v : follows(left_embedding.val, left_centroids.val, l)
            /\ \A t \in 1..timesteps.v : follows(right_embedding.val, right_centroids.val, t)

\* C9: sample changes no field but A, left_embedding and right_embedding, and
\* get_centroids none but left_centroids and right_centroids.
C9_NoImplicitRecomputation ==
    [][ /\ call'.op = "sample" =>
              UNCHANGED <<left_centroids, right_centroids, left_embedding_theo,
                          right_embedding_theo, rotation_left, rotation_right, error, params>>
        /\ call'.op = "get_centroids" =>
              UNCHANGED <<A, left_embedding, right_embedding, left_embedding_theo,
                          right_embedding_theo, rotation_left, rotation_right, error, params>>
      ]_vars

\* a sample after a full run of the pipeline: the centroids, the rotations and
\* the error are those of the run, and the centroids are no longer those of the
\* embedding
C9_Witness ==
    /\ Returned("sample")
    /\ ~left_centroids.isNone /\ ~rotation_left.isNone /\ ~rotation_right.isNone
    /\ error.n > 0
    /\ left_centroids.val # Centroids(left_embedding.val, Layers)

\* C10 as stated: centroids only with embeddings, a rotation only with
\* centroids and theoretical embeddings, and an error other than 0 only with
\* both rotations.
C10_FieldsFollowPipelineOrder ==
    /\ (~left_centroids.isNone \/ ~right_centroids.isNone)
          => (~left_embedding.isNone /\ ~right_embedding.isNone)
    /\ (~rotation_left.isNone \/ ~rotation_right.isNone)
          => /\ ~left_centroids.isNone /\ ~right_centroids.isNone
             /\ ~left_embedding_theo.isNone /\ ~right_embedding_theo.isNone
    /\ error # [n |-> 0, d |-> 1] => (~rotation_left.isNone /\ ~rotation_right.isNone)

\* C10 as amended: centroids only with embeddings, a rotation only with
\* centroids and theoretical embeddings, and an error other than 0 only with
\* centroids and theoretical embeddings (the rotations may still be None).
C10_FieldsFollowDependencies ==
    /\ (~left_centroids.isNone \/ ~right_centroids.isNone)
          => (~left_embedding.isNone /\ ~right_embedding.isNone)
    /\ (~rotation_left.isNone \/ ~rotation_right.isNone)
          => /\ ~left_centroids.isNone /\ ~right_centroids.isNone
             /\ ~left_embedding_theo.isNone /\ ~right_embedding_theo.isNone
    /\ error # [n |-> 0, d |-> 1]
          => /\ ~left_centroids.isNone /\ ~right_centroids.isNone
             /\ ~left_embedding_theo.isNone /\ ~right_embedding_theo.isNone

\* calculate_error has set an error other than 0 on a model without rotations
C10_Witness ==
    /\ Returned("calculate_error")
    /\ error.n > 0
    /\ rotation_left.isNone /\ rotation_right.isNone

====
